---------------------------- MODULE Spec2Model ----------------------------
(***************************************************************************)
(* LoggingAllocator (src/src/lib.rs): a GlobalAlloc wrapper that forwards  *)
(* every request to a delegate allocator and, when its atomic `enabled`    *)
(* flag is set, prints one line per request with eprintln! inside          *)
(* run_guarded, whose thread-local GUARD cell keeps the allocations made   *)
(* by the printing itself from being logged again.                         *)
(*                                                                         *)
(* stack[t] holds the calls in progress on thread t (allocator operations  *)
(* and the program's own calls of run_guarded), innermost last: each frame *)
(* has the call's arguments, its position (pc) and what it has done so     *)
(* far.  A call that has returned or panicked stays on its stack until the *)
(* next step of its thread removes it.                                     *)
(*                                                                         *)
(* Spec is the wrapper over an allocator that is not a wrapper (System).   *)
(* NestedSpec is the wrapper over another LoggingAllocator, which is over  *)
(* System: with_allocator(LoggingAllocator::new(d), e).  There a frame's   *)
(* `wrapper` field tells whose method it runs: "outer" is the allocator    *)
(* the program's requests enter, "inner" its delegate.                     *)
(***************************************************************************)
EXTENDS Integers, Sequences, FiniteSets, TLC

\* Bound of the model: the number of calls made in one behaviour.
MaxOps == 2

\* const WARNING_THRESHOLD: usize = 1_000_000;
WARNING_THRESHOLD == 1000000

\* The threads of the process; each owns one GUARD cell.
Threads == {"A", "B"}

\* The address a caller passes, and what the delegate returns: another
\* address, or the null pointer (0) on failure.
Ptrs == {1}
Results == {0, 2}

\* Layout sizes and alignments the callers use: the threshold itself and the
\* first size above it.
Sizes == {WARNING_THRESHOLD, WARNING_THRESHOLD + 1}
Aligns == {8}
Layouts == [size : Sizes, align : Aligns]

\* The layouts callers zero-allocate, free and reallocate with: blocks above
\* the threshold, where a warning of those operations would show.
LargeLayouts == {l \in Layouts : l.size > WARNING_THRESHOLD}

AllocOps == {"alloc", "dealloc", "alloc_zeroed", "realloc"}

VARIABLES
    warn,      \* cfg(feature = "warn"): fixed when the crate is built
    enabled,   \* LoggingAllocator.enabled (AtomicBool)
    guard,     \* GUARD: one Cell<bool> per thread
    stack,     \* per thread: the calls in progress, innermost last
    ncalls,    \* calls made so far
    aborted,   \* the process was aborted by a panic
    delegateEnabled,  \* `enabled` of a LoggingAllocator used as the delegate
    lastStore  \* what the latest store to `enabled` wrote (at first: the
               \* `enabled` argument of new)

vars == <<warn, enabled, guard, stack, ncalls, aborted, delegateEnabled,
          lastStore>>

\* The frame of a call that has done nothing yet.
NewFrame ==
    [op |-> "none", ptr |-> 0, layout |-> [size |-> 0, align |-> 0],
     new_size |-> 0, pc |-> "start", dcalls |-> <<>>, dres |-> <<>>,
     ret |-> <<>>, log |-> <<>>, warned |-> <<>>, flagRead |-> <<>>,
     guardAtEntry |-> <<>>, guardAtStart |-> FALSE, sawEnabled |-> FALSE,
     inGuarded |-> FALSE, inLogEmission |-> FALSE, othersGuarded |-> FALSE,
     wrapper |-> "outer", reached |-> <<>>]

---------------------------------------------------------------------------
(* The pieces of the code the actions are built from.                      *)

\* A wrapper that logs whatever the flag holds.
LoggingAlwaysOn == TRUE

\* LoggingAllocator::logging_enabled: self.enabled.load(SeqCst)
logging_enabled == enabled

\* A guard that is one static cell for the whole process.
SharedGuardCell(t) == "A"

\* thread_local! { static GUARD }: the cell thread t reads and writes.
GuardCell(t) == t

GuardOf(t) == guard[GuardCell(t)]

\* A run_guarded that runs its callback whatever the guard held.
RunGuardedAlwaysEnters(g) == TRUE

\* run_guarded: `if !guard.replace(true)` -- the callback runs only when the
\* cell held false.
RunGuardedEnters(g) == ~g

\* A run_guarded that reads the guard without setting it.
GuardNotSet(t) == guard

\* run_guarded: guard.replace(true) leaves true in the cell on both branches.
GuardReplaced(t) == [guard EXCEPT ![GuardCell(t)] = TRUE]

\* A run_guarded that leaves the guard as it is when f() has returned.
GuardKept(t) == guard

\* run_guarded: guard.set(false) after f() returned.
GuardCleared(t) == [guard EXCEPT ![GuardCell(t)] = FALSE]

\* A threshold test that includes the threshold itself.
ReachesThreshold(n) == n >= WARNING_THRESHOLD

\* `layout.size() > WARNING_THRESHOLD`, `new_size > WARNING_THRESHOLD`
ExceedsThreshold(n) == n > WARNING_THRESHOLD

\* A warning that is printed only while logging is enabled.
WarnsOnlyWhenEnabled(op, layout, new_size) ==
    /\ warn
    /\ enabled
    /\ \/ op = "alloc" /\ ExceedsThreshold(layout.size)
       \/ op = "realloc" /\ ExceedsThreshold(new_size)

\* The cfg(feature = "warn") blocks: only alloc and realloc have one; alloc
\* tests layout.size(), realloc tests new_size.
WarnsAbout(op, layout, new_size) ==
    /\ warn
    /\ \/ op = "alloc" /\ ExceedsThreshold(layout.size)
       \/ op = "realloc" /\ ExceedsThreshold(new_size)

\* What each operation hands to self.allocator.
DelegateCall(op, ptr, layout, new_size) ==
    [op |-> op, ptr |-> ptr, layout |-> layout, new_size |-> new_size]

\* What each operation returns: the pointer the delegate returned (dealloc
\* returns nothing).
ReturnValue(dres) == dres

\* A Display that appends the backtrace to every descriptor.
FmtAlwaysFull(ptr, size, align, bt) ==
    [address |-> ptr, size |-> size, align |-> align, backtrace |-> TRUE]

\* struct Fmt(ptr, size, align, backtrace) as Display renders it: the three
\* fields, and the captured backtrace only when the flag is set.
Fmt(ptr, size, align, bt) ==
    [address |-> ptr, size |-> size, align |-> align, backtrace |-> bt]

\* The arguments of the eprintln! of each operation.
LogLine(f) ==
    IF f.op = "realloc"
    THEN [kind |-> "realloc",
          descs |-> <<Fmt(f.ptr, f.layout.size, f.layout.align, FALSE),
                      Fmt(f.dres[1], f.new_size, f.layout.align, TRUE)>>]
    ELSE IF f.op = "dealloc"
    THEN [kind |-> "dealloc",
          descs |-> <<Fmt(f.ptr, f.layout.size, f.layout.align, TRUE)>>]
    ELSE [kind |-> f.op,
          descs |-> <<Fmt(f.dres[1], f.layout.size, f.layout.align, TRUE)>>]

---------------------------------------------------------------------------
(* Where a thread is.                                                      *)

Depth(t) == Len(stack[t])

Top(t) == stack[t][Len(stack[t])]

\* The top frame of t is at position pc.
TopAt(t, ops, pc) ==
    IF stack[t] = <<>>
    THEN FALSE
    ELSE Top(t).op \in ops /\ Top(t).pc = pc

\* The thread runs the program's own code: outside every call, or in the
\* callback the program passed to run_guarded.
InUserCode(t) == stack[t] = <<>> \/ TopAt(t, {"run_guarded"}, "cb")

\* The thread runs an eprintln! of the wrapper: the warning or the log line.
\* Formatting, backtrace capture and writing allocate.
InEmission(t) == TopAt(t, AllocOps, "warning") \/ TopAt(t, AllocOps, "cb")

CanCallAllocator(t) == InUserCode(t) \/ InEmission(t)

\* Some call on t's stack is running a run_guarded callback.
InGuardedCallback(t) == \E k \in 1..Depth(t) : stack[t][k].pc = "cb"

\* Some operation on t's stack is printing its log line.
InLogEmission(t) ==
    \E k \in 1..Depth(t) :
        stack[t][k].op \in AllocOps /\ stack[t][k].pc = "cb"

Push(t, f) == [stack EXCEPT ![t] = Append(@, f)]
Pop(t) == [stack EXCEPT ![t] = SubSeq(@, 1, Len(@) - 1)]
SetTop(t, f) == [stack EXCEPT ![t][Len(stack[t])] = f]

\* A panic starts in the top frame of t: the stack starts to unwind, or the
\* process aborts (panic = abort, or the unwinding leaves the global
\* allocator's entry points, which the language leaves undefined).  Nothing
\* of the crate runs while the stack unwinds: no Drop impl resets GUARD.
Panic(t, f) ==
    \/ /\ stack' = SetTop(t, [f EXCEPT !.pc = "panicked"])
       /\ aborted' = aborted
    \/ /\ stack' = SetTop(t, f)
       /\ aborted' = TRUE

---------------------------------------------------------------------------
(* The actions.                                                            *)

Init ==
    /\ warn \in BOOLEAN
    /\ enabled \in BOOLEAN
    /\ guard = [t \in Threads |-> FALSE]
    /\ stack = [t \in Threads |-> <<>>]
    /\ ncalls = 0
    /\ aborted = FALSE
    /\ delegateEnabled = FALSE
    /\ lastStore = enabled

\* The frame of an alloc, dealloc, alloc_zeroed or realloc that has just been
\* entered.  The warn block, when compiled in, is the first thing alloc and
\* realloc do: an over-threshold request enters the eprintln! of its warning.
EnteredFrame(t, op, ptr, layout, new_size) ==
    [NewFrame EXCEPT
        !.op = op, !.ptr = ptr, !.layout = layout, !.new_size = new_size,
        !.pc = IF WarnsAbout(op, layout, new_size)
               THEN "warning" ELSE "delegate",
        !.warned = IF WarnsAbout(op, layout, new_size)
                   THEN <<[status |-> "pending"]>> ELSE <<>>,
        !.guardAtStart = GuardOf(t),
        !.inGuarded = InGuardedCallback(t),
        !.inLogEmission = InLogEmission(t)]

\* A call of alloc, dealloc, alloc_zeroed or realloc enters the wrapper the
\* program calls.
Start(t, op, ptr, layout, new_size) ==
    /\ ~aborted
    /\ ncalls < MaxOps
    /\ CanCallAllocator(t)
    /\ stack' = Push(t, [EnteredFrame(t, op, ptr, layout, new_size)
                            EXCEPT !.sawEnabled = enabled])
    /\ ncalls' = ncalls + 1
    /\ UNCHANGED <<warn, delegateEnabled, lastStore, enabled, guard, aborted>>

CallAlloc(t) ==
    \E layout \in Layouts : Start(t, "alloc", 0, layout, 0)

CallAllocZeroed(t) ==
    \E layout \in LargeLayouts : Start(t, "alloc_zeroed", 0, layout, 0)

CallDealloc(t) ==
    \E ptr \in Ptrs, layout \in LargeLayouts :
        Start(t, "dealloc", ptr, layout, 0)

CallRealloc(t) ==
    \E ptr \in Ptrs, layout \in LargeLayouts, new_size \in Sizes :
        Start(t, "realloc", ptr, layout, new_size)

\* eprintln!("large allocation at {:?}", ...): the line is written, or the
\* write fails and eprintln! panics.
WarnEmit(t, ok) ==
    /\ ~aborted
    /\ TopAt(t, AllocOps, "warning")
    /\ LET f == [Top(t) EXCEPT !.warned[Len(Top(t).warned)].status =
                                    IF ok THEN "written" ELSE "failed"]
       IN IF ok
          THEN /\ stack' = SetTop(t, [f EXCEPT !.pc = "delegate"])
               /\ aborted' = aborted
          ELSE Panic(t, f)
    /\ UNCHANGED <<warn, delegateEnabled, lastStore, enabled, guard, ncalls>>

\* self.allocator.alloc(layout) and its siblings: the delegate returns any
\* address, or null.
Delegate(t, res) ==
    /\ ~aborted
    /\ TopAt(t, AllocOps, "delegate")
    /\ Top(t).op = "dealloc" => res = 0
    /\ LET f == Top(t)
       IN stack' = SetTop(t, [f EXCEPT
                    !.dcalls = Append(@, DelegateCall(f.op, f.ptr, f.layout,
                                                      f.new_size)),
                    !.dres = IF f.op = "dealloc" THEN <<>> ELSE <<res>>,
                    !.pc = "check"])
    /\ UNCHANGED <<warn, delegateEnabled, lastStore, enabled, guard, ncalls, aborted>>

\* `if self.logging_enabled() { run_guarded(...) }` up to the call of the
\* closure: one load of the flag (`flag` is what it returned), then
\* guard.replace(true).  When the flag is off or the guard was set, the
\* operation returns the delegate's pointer; otherwise it enters the
\* eprintln! of its log line.
CheckWith(t, flag) ==
    /\ ~aborted
    /\ TopAt(t, AllocOps, "check")
    /\ LET f == Top(t) IN
       IF ~flag
       THEN /\ stack' = SetTop(t, [f EXCEPT !.flagRead = Append(@, FALSE),
                                            !.ret = ReturnValue(f.dres),
                                            !.pc = "returned"])
            /\ guard' = guard
       ELSE IF RunGuardedEnters(GuardOf(t))
       THEN /\ stack' = SetTop(t, [f EXCEPT
                        !.flagRead = Append(@, TRUE),
                        !.guardAtEntry = <<GuardOf(t)>>,
                        !.othersGuarded = \E u \in Threads \ {t} : GuardOf(u),
                        !.log = Append(@, [line |-> LogLine(f),
                                           status |-> "pending"]),
                        !.pc = "cb"])
            /\ guard' = GuardReplaced(t)
       ELSE /\ stack' = SetTop(t, [f EXCEPT
                        !.flagRead = Append(@, TRUE),
                        !.guardAtEntry = <<GuardOf(t)>>,
                        !.ret = ReturnValue(f.dres),
                        !.pc = "returned"])
            /\ guard' = GuardReplaced(t)
    /\ UNCHANGED <<warn, delegateEnabled, lastStore, enabled, ncalls, aborted>>

Check(t) == CheckWith(t, logging_enabled)

\* The closure of the operation: eprintln!("alloc {}", Fmt(...)).  Written,
\* the closure returns, run_guarded clears the guard and the operation
\* returns the delegate's pointer; not written, eprintln! panics.
LogEmit(t, ok) ==
    /\ ~aborted
    /\ TopAt(t, AllocOps, "cb")
    /\ LET f == [Top(t) EXCEPT !.log[Len(Top(t).log)].status =
                                    IF ok THEN "written" ELSE "failed"]
       IN IF ok
          THEN /\ stack' = SetTop(t, [f EXCEPT !.ret = ReturnValue(f.dres),
                                               !.pc = "returned"])
               /\ guard' = GuardCleared(t)
               /\ aborted' = aborted
          ELSE /\ Panic(t, f)
               /\ guard' = guard
    /\ UNCHANGED <<warn, delegateEnabled, lastStore, enabled, ncalls>>

\* The program calls run_guarded(f) itself (examples/vec.rs): f runs, or the
\* guard was set and f is dropped.
RunGuarded(t) ==
    /\ ~aborted
    /\ ncalls < MaxOps
    /\ InUserCode(t)
    /\ stack' = Push(t, [NewFrame EXCEPT
                    !.op = "run_guarded",
                    !.guardAtStart = GuardOf(t),
                    !.guardAtEntry = <<GuardOf(t)>>,
                    !.inGuarded = InGuardedCallback(t),
                    !.pc = IF RunGuardedEnters(GuardOf(t))
                           THEN "cb" ELSE "returned"])
    /\ guard' = GuardReplaced(t)
    /\ ncalls' = ncalls + 1
    /\ UNCHANGED <<warn, delegateEnabled, lastStore, enabled, aborted>>

\* The program's callback returns: guard.set(false).
CallbackReturn(t) ==
    /\ ~aborted
    /\ TopAt(t, {"run_guarded"}, "cb")
    /\ stack' = SetTop(t, [Top(t) EXCEPT !.pc = "returned",
                                         !.ret = Append(@, "ran")])
    /\ guard' = GuardCleared(t)
    /\ UNCHANGED <<warn, delegateEnabled, lastStore, enabled, ncalls, aborted>>

\* The program's callback panics.
CallbackPanic(t) ==
    /\ ~aborted
    /\ TopAt(t, {"run_guarded"}, "cb")
    /\ Panic(t, Top(t))
    /\ UNCHANGED <<warn, delegateEnabled, lastStore, enabled, guard, ncalls>>

\* The caller goes on after a call that returned.
Return(t) ==
    /\ ~aborted
    /\ TopAt(t, AllocOps \cup {"run_guarded"}, "returned")
    /\ stack' = Pop(t)
    /\ UNCHANGED <<warn, delegateEnabled, lastStore, enabled, guard, ncalls, aborted>>

\* The unwinding leaves the panicked frame.  A frame of the crate below it
\* (an operation printing) has no handler and panics in turn; the program's
\* callback below it may catch the panic (catch_unwind) or not; at the
\* thread's base the program caught it and the thread goes on.
Unwind(t, caught) ==
    /\ ~aborted
    /\ TopAt(t, AllocOps \cup {"run_guarded"}, "panicked")
    /\ LET below == SubSeq(stack[t], 1, Depth(t) - 1)
           n == Len(below)
       IN IF n = 0
          THEN caught /\ stack' = [stack EXCEPT ![t] = below]
          ELSE IF caught
          THEN /\ below[n].op = "run_guarded"
               /\ stack' = [stack EXCEPT ![t] = below]
          ELSE stack' = [stack EXCEPT ![t] =
                            [below EXCEPT ![n].pc = "panicked"]]
    /\ UNCHANGED <<warn, delegateEnabled, lastStore, enabled, guard, ncalls, aborted>>

\* The flag's history as each operation that has not read it yet saw it.
Seen(e) ==
    [t \in Threads |->
        [k \in 1..Depth(t) |->
            IF stack[t][k].pc \in {"warning", "delegate", "check"}
            THEN [stack[t][k] EXCEPT !.sawEnabled = @ \/ e]
            ELSE stack[t][k]]]

\* An enable_logging that flips the flag instead of setting it.
EnableLoggingFlips(t) ==
    /\ ~aborted
    /\ InUserCode(t)
    /\ enabled' = ~enabled
    /\ lastStore' = TRUE
    /\ stack' = Seen(~enabled)
    /\ UNCHANGED <<warn, delegateEnabled, guard, ncalls, aborted>>

\* self.enabled.store(true, SeqCst)
EnableLogging(t) ==
    /\ ~aborted
    /\ InUserCode(t)
    /\ enabled' = TRUE
    /\ lastStore' = TRUE
    /\ stack' = Seen(TRUE)
    /\ UNCHANGED <<warn, delegateEnabled, guard, ncalls, aborted>>

\* A disable_logging that also clears every guard.
DisableLoggingResetsGuards(t) ==
    /\ ~aborted
    /\ InUserCode(t)
    /\ enabled' = FALSE
    /\ lastStore' = FALSE
    /\ guard' = [u \in Threads |-> FALSE]
    /\ UNCHANGED <<warn, delegateEnabled, stack, ncalls, aborted>>

\* self.enabled.store(false, SeqCst)
DisableLogging(t) ==
    /\ ~aborted
    /\ InUserCode(t)
    /\ enabled' = FALSE
    /\ lastStore' = FALSE
    /\ UNCHANGED <<warn, delegateEnabled, guard, stack, ncalls, aborted>>

ThreadNext(t) ==
    \/ CallAlloc(t)
    \/ CallAllocZeroed(t)
    \/ CallDealloc(t)
    \/ CallRealloc(t)
    \/ \E ok \in BOOLEAN : WarnEmit(t, ok)
    \/ \E res \in Results : Delegate(t, res)
    \/ Check(t)
    \/ \E ok \in BOOLEAN : LogEmit(t, ok)
    \/ RunGuarded(t)
    \/ CallbackReturn(t)
    \/ CallbackPanic(t)
    \/ Return(t)
    \/ \E caught \in BOOLEAN : Unwind(t, caught)
    \/ EnableLogging(t)
    \/ DisableLogging(t)

Next == \E t \in Threads : ThreadNext(t)

Spec == Init /\ [][Next]_vars

---------------------------------------------------------------------------
(* A wrapper whose delegate is another wrapper.                            *)

\* with_allocator(LoggingAllocator::new(d), e): each wrapper has its own flag.
NestedInit ==
    /\ warn \in BOOLEAN
    /\ enabled \in BOOLEAN
    /\ delegateEnabled \in BOOLEAN
    /\ guard = [t \in Threads |-> FALSE]
    /\ stack = [t \in Threads |-> <<>>]
    /\ ncalls = 0
    /\ aborted = FALSE
    /\ lastStore = enabled

\* The top frame of t runs a method of wrapper w.
TopOf(t, w) ==
    IF stack[t] = <<>> THEN FALSE ELSE Top(t).wrapper = w

\* self.allocator.alloc(layout) in the outer wrapper: the call enters the
\* same method of the inner wrapper with the same arguments.
ForwardToDelegate(t) ==
    /\ ~aborted
    /\ TopAt(t, AllocOps, "delegate")
    /\ TopOf(t, "outer")
    /\ LET f == Top(t)
           g == [f EXCEPT
                    !.dcalls = Append(@, DelegateCall(f.op, f.ptr, f.layout,
                                                      f.new_size)),
                    !.pc = "indelegate"]
           call == g.dcalls[Len(g.dcalls)]
       IN stack' = [stack EXCEPT ![t] =
                        Append([@ EXCEPT ![Len(@)] = g],
                               [EnteredFrame(t, call.op, call.ptr, call.layout,
                                             call.new_size)
                                    EXCEPT !.wrapper = "inner",
                                           !.sawEnabled = delegateEnabled])]
    /\ UNCHANGED <<warn, delegateEnabled, lastStore, enabled, guard, ncalls,
                   aborted>>

\* self.allocator.alloc(layout) in the inner wrapper: System's allocator.
InnermostDelegate(t, res) ==
    /\ TopOf(t, "inner")
    /\ Delegate(t, res)

\* The inner wrapper's method has returned: the outer one has its `ptr`.
DelegateReturns(t) ==
    /\ ~aborted
    /\ TopAt(t, AllocOps, "returned")
    /\ TopOf(t, "inner")
    /\ LET inner == Top(t)
           below == SubSeq(stack[t], 1, Depth(t) - 1)
           n == Len(below)
       IN stack' = [stack EXCEPT ![t] =
                        [below EXCEPT ![n] =
                            [below[n] EXCEPT
                                !.dres = inner.ret,
                                !.reached = Append(@,
                                    [call |-> inner.dcalls[1],
                                     res |-> inner.dres]),
                                !.pc = "check"]]]
    /\ UNCHANGED <<warn, delegateEnabled, lastStore, enabled, guard, ncalls,
                   aborted>>

\* `if self.logging_enabled()`: each wrapper loads its own flag.
OuterCheck(t) ==
    /\ TopOf(t, "outer")
    /\ CheckWith(t, logging_enabled)

DelegateCheck(t) ==
    /\ TopOf(t, "inner")
    /\ CheckWith(t, delegateEnabled)

\* The outer wrapper's method returns to the program or to the printing that
\* called it.
OuterReturn(t) ==
    /\ TopOf(t, "outer")
    /\ Return(t)

NestedThreadNext(t) ==
    \/ CallAlloc(t)
    \/ CallAllocZeroed(t)
    \/ CallDealloc(t)
    \/ CallRealloc(t)
    \/ \E ok \in BOOLEAN : WarnEmit(t, ok)
    \/ ForwardToDelegate(t)
    \/ \E res \in Results : InnermostDelegate(t, res)
    \/ DelegateReturns(t)
    \/ OuterCheck(t)
    \/ DelegateCheck(t)
    \/ \E ok \in BOOLEAN : LogEmit(t, ok)
    \/ OuterReturn(t)
    \/ \E caught \in BOOLEAN : Unwind(t, caught)

NestedNext == \E t \in Threads : NestedThreadNext(t)

NestedSpec == NestedInit /\ [][NestedNext]_vars

---------------------------------------------------------------------------
(* What the properties below speak about.                                  *)

\* The allocator operations in progress (or just ended) on thread t.
OpFrames(t) == {k \in 1..Depth(t) : stack[t][k].op \in AllocOps}

\* The call has ended: it returned, or a panic left it.
Ended(f) == f.pc \in {"returned", "panicked"}

\* The lines of f that reached the stream.
Written(f) == {n \in 1..Len(f.log) : f.log[n].status = "written"}

\* Thread t took the step: a call of t started, moved on or was removed.
Moved(t) ==
    \/ Depth(t)' # Depth(t)
    \/ Depth(t) > 0 /\ Top(t)'.pc # Top(t).pc

\* The emissions (warning or log line) in progress on thread t.
Emissions(t) ==
    {k \in OpFrames(t) : stack[t][k].pc \in {"warning", "cb"}}

LogEmissions(t) == {k \in OpFrames(t) : stack[t][k].pc = "cb"}

---------------------------------------------------------------------------
\* C1: every call of alloc, dealloc, alloc_zeroed or realloc invokes the
\* delegate's operation exactly once, with the caller's pointer, layout and
\* new_size: never twice, and a call that has ended has made its call.
C1_DelegateExactlyOnce ==
    \A t \in Threads : \A k \in OpFrames(t) :
        LET f == stack[t][k] IN
        /\ Len(f.dcalls) <= 1
        /\ f.dcalls # <<>> =>
              f.dcalls[1] = [op |-> f.op, ptr |-> f.ptr, layout |-> f.layout,
                             new_size |-> f.new_size]
        /\ Ended(f) => Len(f.dcalls) = 1

\* What holds of C1 in the code: a call that returns has forwarded exactly
\* once with its own arguments, and dealloc forwards before anything else.
ReturnedCallsForwardOnce ==
    \A t \in Threads : \A k \in OpFrames(t) :
        LET f == stack[t][k] IN
        /\ Len(f.dcalls) <= 1
        /\ f.dcalls # <<>> =>
              f.dcalls[1] = [op |-> f.op, ptr |-> f.ptr, layout |-> f.layout,
                             new_size |-> f.new_size]
        /\ f.pc = "returned" => Len(f.dcalls) = 1
        /\ (f.op = "dealloc" /\ Ended(f)) => Len(f.dcalls) = 1

\* C2: call by call, the wrapper hands back what the delegate returned for
\* that call (null included): a call that has ended after its delegate call
\* has returned the delegate's address.
C2_SameAddressesAsDelegate ==
    \A t \in Threads : \A k \in OpFrames(t) :
        LET f == stack[t][k] IN
        (Ended(f) /\ f.dcalls # <<>>) => f.ret = f.dres

\* C3: an operation made while its thread runs a run_guarded callback (of
\* the wrapper's own logging or of the program) is forwarded to the delegate
\* and never prints a log line, whatever the flag holds.
C3_SilentInsideGuarded ==
    \A t \in Threads : \A k \in OpFrames(t) :
        LET f == stack[t][k] IN
        f.inGuarded =>
            /\ f.log = <<>>
            /\ f.pc # "cb"
            /\ f.pc = "returned" => (Len(f.dcalls) = 1 /\ f.ret = f.dres)

C3_Witness ==
    \E t \in Threads : \E k \in OpFrames(t) :
        LET f == stack[t][k] IN
        /\ f.inGuarded /\ f.inLogEmission
        /\ f.flagRead = <<TRUE>>
        /\ f.pc = "returned"
        /\ f.log = <<>>

\* C4: a run_guarded whose callback panics leaves the thread's guard
\* inactive: a thread outside every call has its guard clear, and an
\* operation it then makes outside every callback, reading the flag as
\* enabled, prints its line.
C4_GuardResetAfterPanic ==
    \A t \in Threads :
        /\ stack[t] = <<>> => ~GuardOf(t)
        /\ \A k \in OpFrames(t) :
            LET f == stack[t][k] IN
            (k = 1 /\ f.pc = "returned" /\ f.flagRead = <<TRUE>>)
                => Len(f.log) = 1

\* C5: an operation during which the flag was never enabled prints no log
\* line, on any thread and for any operation.
C5_DisabledIsSilent ==
    \A t \in Threads : \A k \in OpFrames(t) :
        LET f == stack[t][k] IN
        ~f.sawEnabled => (f.log = <<>> /\ f.pc # "cb")

C5_Witness ==
    \E t \in Threads : \E k \in OpFrames(t) :
        LET f == stack[t][k] IN
        /\ ~f.sawEnabled
        /\ ~f.guardAtStart /\ ~f.inGuarded
        /\ f.pc = "returned"
        /\ f.flagRead = <<FALSE>>
        /\ Len(f.dcalls) = 1
        /\ f.log = <<>>

\* C6 as claimed: with logging enabled (the operation reads the flag as
\* set), every operation that returns has printed exactly one log line.
C6_OneLinePerOperation ==
    \A t \in Threads : \A k \in OpFrames(t) :
        LET f == stack[t][k] IN
        (f.pc = "returned" /\ f.flagRead = <<TRUE>>)
            => Cardinality(Written(f)) = 1

\* C6 as amended: an operation enters the eprintln! of its log line exactly
\* once when it read the flag as set and found its thread's guard clear, and
\* never otherwise; the line (for realloc one line with two descriptors) is
\* on the stream when the operation returns, and no operation prints two.
C6_OneLineUnlessGuarded ==
    \A t \in Threads : \A k \in OpFrames(t) :
        LET f == stack[t][k] IN
        IF f.flagRead = <<TRUE>> /\ f.guardAtEntry = <<FALSE>>
        THEN /\ Len(f.log) = 1
             /\ Len(f.log[1].line.descs) = IF f.op = "realloc" THEN 2 ELSE 1
             /\ f.pc = "returned" => f.log[1].status = "written"
        ELSE f.log = <<>>

C6_Witness ==
    \E t \in Threads : \E k \in OpFrames(t) :
        LET f == stack[t][k] IN
        /\ f.op = "realloc"
        /\ f.pc = "returned"
        /\ f.flagRead = <<TRUE>> /\ f.guardAtEntry = <<FALSE>>
        /\ Cardinality(Written(f)) = 1
        /\ Len(f.log[1].line.descs) = 2

\* C7: the guard is per thread.  Only a step of thread t changes t's guard,
\* and an operation of t that reads the flag as set while t's own guard is
\* clear goes on to print, whatever the guards of the other threads hold.
C7_GuardPerThread ==
    [][\A t \in Threads :
        /\ guard'[t] # guard[t] => Moved(t)
        /\ (/\ TopAt(t, AllocOps, "check")
            /\ Moved(t)
            /\ enabled
            /\ ~guard[t]) => Top(t)'.pc = "cb"]_vars

C7_Witness ==
    \E t \in Threads, u \in Threads :
        /\ t # u
        /\ InGuardedCallback(u) /\ GuardOf(u)
        /\ \E k \in OpFrames(t) :
            LET f == stack[t][k] IN
            /\ f.othersGuarded
            /\ f.pc = "returned"
            /\ Cardinality(Written(f)) = 1

\* C8 as claimed: an operation made inside a log emission starts no further
\* emission of any kind.
C8_NoEmissionInsideEmission ==
    \A t \in Threads : \A k \in OpFrames(t) :
        LET f == stack[t][k] IN
        f.inLogEmission =>
            /\ f.pc \notin {"cb", "warning"}
            /\ f.log = <<>>
            /\ f.warned = <<>>

\* C8 as amended: an operation made inside a log emission starts no further
\* log emission, so a thread has at most one log emission in progress;
\* without the warn feature no emission is nested in another and calls nest
\* at most two deep; and a thread with a call in progress can always take
\* its next step, whatever the other threads do.
C8_LogEmissionNotReentered ==
    \A t \in Threads :
        /\ \A k \in OpFrames(t) :
            stack[t][k].inLogEmission =>
                (stack[t][k].pc # "cb" /\ stack[t][k].log = <<>>)
        /\ Cardinality(LogEmissions(t)) <= 1
        /\ ~warn => (Cardinality(Emissions(t)) <= 1 /\ Depth(t) <= 2)
        /\ (stack[t] # <<>> /\ ~aborted) => ENABLED ThreadNext(t)

C8_Witness ==
    \E t \in Threads : \E k \in OpFrames(t) :
        /\ k > 1
        /\ stack[t][k - 1].op \in AllocOps /\ stack[t][k - 1].pc = "cb"
        /\ stack[t][k].inLogEmission
        /\ stack[t][k].pc = "returned"
        /\ stack[t][k].flagRead = <<TRUE>>
        /\ stack[t][k].log = <<>>

\* C9: a failure of the logging path is not propagated: an operation whose
\* line (or warning) could not be written is not left by a panic and does
\* not abort the process.
C9_LogFailureNotPropagated ==
    \A t \in Threads : \A k \in OpFrames(t) :
        LET f == stack[t][k] IN
        (\/ \E n \in 1..Len(f.log) : f.log[n].status = "failed"
         \/ \E n \in 1..Len(f.warned) : f.warned[n].status = "failed")
            => (f.pc # "panicked" /\ ~aborted)

\* C10: with the warn feature, an alloc of size > 1,000,000 and a realloc to
\* new_size > 1,000,000 print one warning (one eprintln!, whose line is on
\* the stream when the operation goes on to its delegate), whatever the flag
\* and the guard hold; a request of 1,000,000 or less, an alloc_zeroed and a
\* dealloc print none.
C10_WarningAboveThreshold ==
    \A t \in Threads : \A k \in OpFrames(t) :
        LET f == stack[t][k]
            over == \/ f.op = "alloc" /\ f.layout.size > 1000000
                    \/ f.op = "realloc" /\ f.new_size > 1000000
        IN IF warn /\ over
           THEN /\ Len(f.warned) = 1
                /\ f.pc \in {"delegate", "check", "cb", "returned"}
                      => f.warned[1].status = "written"
           ELSE f.warned = <<>> /\ f.pc # "warning"

C10_Witness ==
    /\ warn
    /\ \E t \in Threads : \E k \in OpFrames(t) :
        LET f == stack[t][k] IN
        /\ f.op = "alloc"
        /\ f.layout.size = 1000001
        /\ f.guardAtStart
        /\ ~f.sawEnabled
        /\ f.pc = "returned"
        /\ f.warned = <<[status |-> "written"]>>

\* C11: logging_enabled() returns what the latest enable_logging or
\* disable_logging stored (the argument of new when there was none): in
\* every state that is what a query returns, and the read an operation makes
\* of the flag returns it; enabling twice or disabling twice stores the same
\* value again.
C11_FlagIsLastStore ==
    /\ logging_enabled = lastStore
    /\ [][/\ logging_enabled' = lastStore'
          /\ \A t \in Threads :
                (TopAt(t, AllocOps, "check") /\ Moved(t))
                    => Top(t)'.flagRead = <<lastStore>>]_vars

\* An operation that began with the flag set reads it after another thread's
\* disable_logging completed, and reads false.
C11_Witness ==
    \E t \in Threads : \E k \in OpFrames(t) :
        LET f == stack[t][k] IN
        /\ f.sawEnabled
        /\ f.flagRead = <<FALSE>>
        /\ lastStore = FALSE
        /\ ~enabled
        /\ f.pc = "returned"


\* C12: a log line describes its own request.  alloc and alloc_zeroed print
\* the address the delegate returned with the requested size and alignment;
\* dealloc prints the address, size and alignment it was passed; realloc
\* prints one line of two descriptors: the old block (old address, old size,
\* alignment) without a backtrace, then the new block (the address the
\* delegate returned, new_size, the same alignment) with one.
C12_LogLineDescribesRequest ==
    \A t \in Threads : \A k \in OpFrames(t) :
        LET f == stack[t][k] IN
        \A n \in 1..Len(f.log) :
            LET l == f.log[n].line IN
            /\ l.kind = f.op
            /\ f.op \in {"alloc", "alloc_zeroed"} =>
                  l.descs = <<[address |-> f.dres[1], size |-> f.layout.size,
                               align |-> f.layout.align, backtrace |-> TRUE]>>
            /\ f.op = "dealloc" =>
                  l.descs = <<[address |-> f.ptr, size |-> f.layout.size,
                               align |-> f.layout.align, backtrace |-> TRUE]>>
            /\ f.op = "realloc" =>
                  l.descs = <<[address |-> f.ptr, size |-> f.layout.size,
                               align |-> f.layout.align, backtrace |-> FALSE],
                              [address |-> f.dres[1], size |-> f.new_size,
                               align |-> f.layout.align, backtrace |-> TRUE]>>

\* A realloc from 1,000,001 to 1,000,000 bytes that moved the block has its
\* line on the stream.
C12_Witness ==
    \E t \in Threads : \E k \in OpFrames(t) :
        LET f == stack[t][k] IN
        /\ f.op = "realloc"
        /\ f.new_size # f.layout.size
        /\ f.dres = <<2>> /\ f.ptr = 1
        /\ Len(f.log) = 1
        /\ f.log[1].status = "written"
        /\ f.log[1].line.descs[1].size = 1000001
        /\ f.log[1].line.descs[2].size = 1000000


\* C13: within an operation the delegate comes first: an operation that has
\* entered the eprintln! of its warning or of its log line has already got
\* its delegate call back.
C13_DelegateBeforeDiagnostics ==
    \A t \in Threads : \A k \in OpFrames(t) :
        LET f == stack[t][k] IN
        (f.warned # <<>> \/ f.log # <<>>) => Len(f.dcalls) = 1

\* What holds of C13 in the code: the log line is printed after the
\* delegate call has returned.
LogLineFollowsDelegate ==
    \A t \in Threads : \A k \in OpFrames(t) :
        LET f == stack[t][k] IN
        (f.log # <<>> \/ f.flagRead # <<>>) => Len(f.dcalls) = 1


\* C14: a run_guarded called with the thread's guard inactive runs its
\* callback once, and the guard is inactive again when it has returned
\* normally; a run_guarded called with the guard active never runs its
\* callback and leaves the guard active; so the guard is active for as long
\* as a callback is running, however the calls nest.
C14_NestedRunGuardedIsNoOp ==
    \A t \in Threads : \A k \in 1..Depth(t) :
        LET f == stack[t][k] IN
        /\ f.pc = "cb" => GuardOf(t)
        /\ f.op = "run_guarded" =>
            /\ Len(f.ret) <= 1
            /\ f.guardAtEntry = <<FALSE>> =>
                  /\ f.pc \in {"cb", "returned", "panicked"}
                  /\ f.pc = "returned" => (f.ret = <<"ran">> /\ ~GuardOf(t))
            /\ f.guardAtEntry = <<TRUE>> =>
                  /\ f.pc = "returned"
                  /\ f.ret = <<>>
                  /\ GuardOf(t)

\* A run_guarded called inside the callback of another has returned without
\* running its callback, and the guard is still active.
C14_Witness ==
    \E t \in Threads :
        /\ Depth(t) = 2
        /\ stack[t][1].op = "run_guarded" /\ stack[t][1].pc = "cb"
        /\ stack[t][1].guardAtEntry = <<FALSE>>
        /\ stack[t][2].op = "run_guarded" /\ stack[t][2].pc = "returned"
        /\ stack[t][2].guardAtEntry = <<TRUE>>
        /\ stack[t][2].ret = <<>>
        /\ GuardOf(t)


\* C15: when the delegate returns null for alloc, alloc_zeroed or realloc,
\* the operation makes no second delegate call, hands the null back to its
\* caller, and (flag read as set, guard inactive) prints its line with the
\* null address.
C15_NullPassedThrough ==
    \A t \in Threads : \A k \in OpFrames(t) :
        LET f == stack[t][k] IN
        f.dres = <<0>> =>
            /\ Len(f.dcalls) = 1
            /\ Ended(f) => f.ret = <<0>>
            /\ (f.flagRead = <<TRUE>> /\ f.guardAtEntry = <<FALSE>>) =>
                  /\ Len(f.log) = 1
                  /\ f.log[1].line.descs[Len(f.log[1].line.descs)].address = 0

\* What holds of C15 in the code: an operation that returns after a null
\* from the delegate returns the null, after one delegate call, and its
\* line, when it prints one, carries the null address.
NullReturnedByCallsThatReturn ==
    \A t \in Threads : \A k \in OpFrames(t) :
        LET f == stack[t][k] IN
        f.dres = <<0>> =>
            /\ Len(f.dcalls) = 1
            /\ f.pc = "returned" => f.ret = <<0>>
            /\ (f.flagRead = <<TRUE>> /\ f.guardAtEntry = <<FALSE>>) =>
                  /\ Len(f.log) = 1
                  /\ f.log[1].line.descs[Len(f.log[1].line.descs)].address = 0


\* C16: the operations never write the flag and the toggles touch nothing
\* else.  A step in which a call starts, moves on or ends leaves `enabled`
\* as it was, so the flag always holds what the latest toggle (or new)
\* stored; a step in which no call moves and no panic aborts the process
\* (enable_logging, disable_logging) leaves every guard and every call's
\* delegate call, result and log line as they were.
C16_FlagWrittenOnlyByToggles ==
    /\ enabled = lastStore
    /\ [][/\ enabled' = lastStore'
          /\ (\E t \in Threads : Moved(t)) => enabled' = enabled
          /\ (aborted' = aborted /\ \A t \in Threads : ~Moved(t)) =>
                /\ guard' = guard
                /\ \A t \in Threads : \A k \in 1..Depth(t) :
                      /\ stack'[t][k].dcalls = stack[t][k].dcalls
                      /\ stack'[t][k].dres = stack[t][k].dres
                      /\ stack'[t][k].log = stack[t][k].log]_vars

\* While one thread is inside a guarded callback, an operation of another
\* thread that began with the flag set has returned after its delegate call,
\* and the flag now holds the false a disable_logging stored.
C16_Witness ==
    \E t \in Threads, u \in Threads :
        /\ t # u
        /\ InGuardedCallback(u) /\ GuardOf(u)
        /\ ~enabled /\ lastStore = FALSE
        /\ \E k \in OpFrames(t) :
            LET f == stack[t][k] IN
            /\ f.sawEnabled
            /\ f.pc = "returned"
            /\ Len(f.dcalls) = 1


\* C18: an operation loads the flag once, after its delegate call has
\* returned, and that load decides alone.  No operation has read twice or
\* before its delegate call; one that prints or has returned has read once;
\* a line is printed only after reading true, and an operation that never
\* saw the flag set prints none.  At the read, false sends the operation
\* back with the delegate's pointer, true makes it print if the thread's
\* guard is inactive.  Neither the read nor a toggle changes the delegate
\* call, its result or what the operation returns.
C18_OneFlagReadDecides ==
    /\ [](\A t \in Threads : \A k \in OpFrames(t) :
            LET f == stack[t][k] IN
            /\ Len(f.flagRead) <= 1
            /\ f.flagRead # <<>> => Len(f.dcalls) = 1
            /\ f.pc \in {"cb", "returned"} => Len(f.flagRead) = 1
            /\ f.log # <<>> => f.flagRead = <<TRUE>>
            /\ f.flagRead = <<FALSE>> => (f.log = <<>> /\ f.pc # "cb")
            /\ ~f.sawEnabled => f.flagRead \in {<<>>, <<FALSE>>}
            /\ f.pc = "returned" => f.ret = f.dres)
    /\ [][\A t \in Threads :
            /\ (TopAt(t, AllocOps, "check") /\ Moved(t)) =>
                  /\ Top(t)'.flagRead = <<enabled>>
                  /\ Top(t)'.dcalls = Top(t).dcalls
                  /\ Top(t)'.dres = Top(t).dres
                  /\ ~enabled =>
                        (Top(t)'.pc = "returned" /\ Top(t)'.log = <<>>)
                  /\ (enabled /\ ~guard[t]) =>
                        (Top(t)'.pc = "cb" /\ Len(Top(t)'.log) = 1)
                  /\ (enabled /\ guard[t]) =>
                        (Top(t)'.pc = "returned" /\ Top(t)'.log = <<>>)
            /\ (enabled' # enabled) =>
                  \A k \in 1..Depth(t) :
                      /\ stack'[t][k].dcalls = stack[t][k].dcalls
                      /\ stack'[t][k].dres = stack[t][k].dres
                      /\ stack'[t][k].ret = stack[t][k].ret]_vars

\* A disable_logging raced with an alloc_zeroed that began with the flag set:
\* the operation read false, printed nothing and returned the address the
\* delegate gave it.
C18_Witness ==
    \E t \in Threads : \E k \in OpFrames(t) :
        LET f == stack[t][k] IN
        /\ f.op = "alloc_zeroed"
        /\ f.sawEnabled /\ ~f.guardAtStart
        /\ f.flagRead = <<FALSE>>
        /\ f.log = <<>>
        /\ f.pc = "returned"
        /\ Len(f.dcalls) = 1
        /\ f.dres = <<2>> /\ f.ret = <<2>>


\* C19: with the warn feature the warning stands apart from the guard and
\* the flag.  An over-threshold alloc or realloc prints its warning whatever
\* they hold, also inside a guarded callback; the steps in which a warning
\* starts or ends change neither; and an operation made while a warning is
\* being printed is an ordinary one: it finds the guard as the warning's
\* operation found it, prints its line when it reads the flag as set with
\* the guard inactive, and prints a warning of its own when it is over the
\* threshold.
C19_WarningApartFromGuardAndFlag ==
    /\ [](\A t \in Threads : \A k \in OpFrames(t) :
            LET f == stack[t][k]
                over == \/ f.op = "alloc" /\ f.layout.size > 1000000
                        \/ f.op = "realloc" /\ f.new_size > 1000000
            IN /\ (warn /\ over) => Len(f.warned) = 1
               /\ (k > 1 /\ stack[t][k - 1].pc = "warning") =>
                     /\ f.guardAtStart = stack[t][k - 1].guardAtStart
                     /\ (f.flagRead = <<TRUE>> /\ f.guardAtEntry = <<FALSE>>)
                           => Len(f.log) = 1
                     /\ (f.flagRead = <<TRUE>> /\ ~f.guardAtStart)
                           => f.guardAtEntry = <<FALSE>>)
    /\ [][\A t \in Threads :
            (\/ Depth(t)' = Depth(t) + 1 /\ Top(t)'.pc = "warning"
             \/ /\ TopAt(t, AllocOps, "warning")
                /\ Depth(t)' = Depth(t)
                /\ \/ Top(t)'.pc # "warning"
                   \/ Top(t)'.warned # Top(t).warned)
                => (guard' = guard /\ enabled' = enabled)]_vars

\* Inside the warning of an over-threshold alloc, an over-threshold alloc
\* has printed its own warning and its log line and has returned.
C19_Witness ==
    /\ warn
    /\ \E t \in Threads : \E k \in OpFrames(t) :
        LET f == stack[t][k] IN
        /\ k > 1
        /\ stack[t][k - 1].op = "alloc" /\ stack[t][k - 1].pc = "warning"
        /\ f.op = "alloc" /\ f.layout.size = 1000001
        /\ f.warned = <<[status |-> "written"]>>
        /\ f.flagRead = <<TRUE>>
        /\ Len(f.log) = 1 /\ f.log[1].status = "written"
        /\ f.pc = "returned"


---------------------------------------------------------------------------
(* The wrapper over another wrapper (NestedSpec).                          *)

\* The requests in progress on thread t in the outer wrapper.
OuterFrames(t) == {k \in OpFrames(t) : stack[t][k].wrapper = "outer"}

\* C17: a wrapper over a wrapper keeps the contract.  Every request made of
\* the outer wrapper reaches System's allocator exactly once, with the
\* arguments the caller gave, and the outer wrapper hands back what System
\* returned; and while either wrapper prints a log line neither starts
\* another, as the two share the thread's guard.
C17_NestedWrapperKeepsContract ==
    \A t \in Threads :
        /\ \A k \in OuterFrames(t) :
            LET f == stack[t][k] IN
            /\ Len(f.reached) <= 1
            /\ f.reached # <<>> =>
                  f.reached[1].call = [op |-> f.op, ptr |-> f.ptr,
                                       layout |-> f.layout,
                                       new_size |-> f.new_size]
            /\ Ended(f) =>
                  (Len(f.reached) = 1 /\ f.ret = f.reached[1].res)
        /\ Cardinality(LogEmissions(t)) <= 1

\* What holds of C17 in the code: a request the outer wrapper returns from
\* has reached System's allocator exactly once with the caller's arguments
\* and returns System's result; a thread prints at most one log line at a
\* time, for both wrappers together; and without the warn feature nothing is
\* printed inside the printing and the calls nest at most four deep.
NestedReturnedCallsKeepContract ==
    \A t \in Threads :
        /\ \A k \in OuterFrames(t) :
            LET f == stack[t][k] IN
            /\ Len(f.reached) <= 1
            /\ Len(f.dcalls) <= 1
            /\ f.reached # <<>> =>
                  f.reached[1].call = [op |-> f.op, ptr |-> f.ptr,
                                       layout |-> f.layout,
                                       new_size |-> f.new_size]
            /\ f.pc = "returned" =>
                  (Len(f.reached) = 1 /\ f.ret = f.reached[1].res)
        /\ \A k \in OpFrames(t) :
            (stack[t][k].wrapper = "inner" /\ stack[t][k].dcalls # <<>>) =>
                stack[t][k].dcalls[1] = stack[t][k - 1].dcalls[1]
        /\ Cardinality(LogEmissions(t)) <= 1
        /\ ~warn => (Cardinality(Emissions(t)) <= 1 /\ Depth(t) <= 4)

\* Both wrappers enabled: the inner wrapper printed the request's line, then
\* the outer one printed it too and returned System's address.
NestedBothWrappersLogged ==
    \E t \in Threads : \E k \in OuterFrames(t) :
        LET f == stack[t][k] IN
        /\ f.pc = "returned"
        /\ f.reached # <<>>
        /\ f.ret = <<2>>
        /\ Len(f.log) = 1 /\ f.log[1].status = "written"

=============================================================================
